---- MODULE Spec2Model ----
(***************************************************************************)
(* Model of regex.py: build_nfa compiles a pattern into a graph of State   *)
(* objects, match_pattern simulates that graph over an input string.       *)
(*                                                                         *)
(* Objects of class State live in the sequence `nodes`; the index of a     *)
(* node in that sequence is its object identity (a Python reference), and  *)
(* state_id is the field the constructor fills from State.id_count.        *)
(* An NFA object is the record of its two fields.  Every NFA object is     *)
(* referenced from exactly one place (one slot of nfa_stack or curr_nfa),  *)
(* so a slot holds the object's value.  None is the record of two null     *)
(* references.  A Python exception ends the call: `err` records its class. *)
(***************************************************************************)
EXTENDS Integers, Sequences, FiniteSets, TLC

\* ---------------------------------------------------------------- bounds
MaxPatLen == 3
MaxStrLen == 3

Literals == {"a", "b"}
InputSymbols == {"a", "b", "c"}
Quantifiers == {"?", "*", "+"}
PatternSymbols == Literals \cup Quantifiers \cup {"|", "(", ")", "."}

SeqsUpTo(S, n) == UNION {[1..m -> S] : m \in 0..n}

\* the pattern and the input of the last sample call of main()
CompositePattern == <<"(", "c", "a", "*", "t", "|", "l", "i", "o", "n", ")", "+", ".", "*", "(", "d", "o", "g", ")", "?">>
CompositeInput == <<"c", "a", "t", "s", "d", "o", "g">>

\* a literal followed by a group, and two groups in a row
GroupPatterns ==
    {<<x, "(", y, ")">> : x \in Literals, y \in Literals}
        \cup {<<"(", x, ")", "(", y, ")">> : x \in Literals, y \in Literals}

\* a group whose last alternative is empty
EmptyBranchPatterns == {<<"(", x, "|", ")">> : x \in Literals}

\* two repetitions of a two-literal sequence
RepeatedPairs == {<<x, y, x, y>> : x \in Literals, y \in Literals}

Patterns ==
    SeqsUpTo(PatternSymbols, MaxPatLen) \cup GroupPatterns \cup EmptyBranchPatterns
        \cup {CompositePattern}
Strings == SeqsUpTo(InputSymbols, MaxStrLen) \cup RepeatedPairs \cup {CompositeInput}

\* heap_base: the size of the heap at the start of every build_nfa call so far
\* threads:   the builds that run concurrently on the class counter (SpecConc)
VARIABLES pattern, string, pc, i, nodes, id_count, nfa_stack, curr_nfa, nfa,
          states, pos, result, heap_base, threads

vars == <<pattern, string, pc, i, nodes, id_count, nfa_stack, curr_nfa, nfa,
          states, pos, result, heap_base, threads>>

\* ------------------------------------------------------- Python helpers
None == [start_state |-> 0, end_state |-> 0]
Ok == "ok"

Last(s) == s[Len(s)]
Front(s) == SubSeq(s, 1, Len(s) - 1)
SetLast(s, x) == [s EXCEPT ![Len(s)] = x]

Raise(b, e) == [b EXCEPT !.err = e]

\* ------------------------------------------------------------ class State
\* State.__init__ with state_id=None: the id comes from the class counter
State_init(b, kind, char) ==
    [b EXCEPT !.nodes = Append(@, [kind |-> kind,
                                   match_any |-> (kind = "Char" /\ char = "."),
                                   match_char |-> char,
                                   state_id |-> b.id_count,
                                   next_states |-> <<>>]),
              !.id_count = @ + 1]

\* State.__init__ with an explicit state_id: the counter is left alone
State_init_id(b, kind, state_id) ==
    [b EXCEPT !.nodes = Append(@, [kind |-> kind,
                                   match_any |-> FALSE,
                                   match_char |-> "",
                                   state_id |-> state_id,
                                   next_states |-> <<>>])]

Char_init(b, char) == State_init(b, "Char", char)
Split_init(b) == State_init(b, "Split", "")
End_init(b) == State_init_id(b, "End", -1)

add_next_state(b, self, next_state) ==
    [b EXCEPT !.nodes[self].next_states = Append(@, next_state)]

\* -------------------------------------------------------------- class NFA
\* connect that adds the edge but keeps the old end_state
NFA_connect_keeps_end(b, self, next_nfa) ==
    IF self = None \/ next_nfa = None
    THEN [b |-> Raise(b, "AttributeError"), nfa |-> self]
    ELSE [b |-> add_next_state(b, self.end_state, next_nfa.start_state),
          nfa |-> self]

NFA_connect(b, self, next_nfa) ==
    IF self = None \/ next_nfa = None
    THEN [b |-> Raise(b, "AttributeError"), nfa |-> self]
    ELSE [b |-> add_next_state(b, self.end_state, next_nfa.start_state),
          nfa |-> [self EXCEPT !.end_state = next_nfa.end_state]]

\* loop that adds no edge
NFA_loop_no_edge(b, self) ==
    IF self = None THEN Raise(b, "AttributeError")
    ELSE b

NFA_loop(b, self) ==
    IF self = None THEN Raise(b, "AttributeError")
    ELSE add_next_state(b, self.end_state, self.start_state)

NFA_bypass(b, self) ==
    IF self = None THEN Raise(b, "AttributeError")
    ELSE add_next_state(b, self.start_state, self.end_state)

\* wrap that adds the entry edge only
NFA_wrap_no_exit(b, self, other_nfa) ==
    IF other_nfa = None THEN Raise(b, "AttributeError")
    ELSE add_next_state(b, self.start_state, other_nfa.start_state)

NFA_wrap(b, self, other_nfa) ==
    IF other_nfa = None THEN Raise(b, "AttributeError")
    ELSE add_next_state(add_next_state(b, self.start_state, other_nfa.start_state),
                        other_nfa.end_state, self.end_state)

RECURSIVE NFA_init_loop(_, _, _, _)
\* `for nfa in other_nfa: self.wrap(nfa)`, from element n on
NFA_init_loop(b, self, other_nfa, n) ==
    IF n > Len(other_nfa) THEN b
    ELSE LET w == NFA_wrap(b, self, other_nfa[n])
         IN IF w.err # Ok THEN w ELSE NFA_init_loop(w, self, other_nfa, n + 1)

\* NFA(other_nfa=[...]): two fresh Splits, every element wrapped between them
NFA_init(b, other_nfa) ==
    LET b1 == Split_init(b)
        b2 == Split_init(b1)
        self == [start_state |-> Len(b1.nodes), end_state |-> Len(b2.nodes)]
    IN [b |-> NFA_init_loop(b2, self, other_nfa, 1), nfa |-> self]

\* ----------------------------------------------------- finalize_nfa_stack
finalize_nfa_stack(b) ==
    LET top == Last(b.nfa_stack) IN
    IF Len(top) > 1
    THEN LET w == NFA_init(b, top) IN
         IF w.b.err # Ok THEN w.b
         ELSE IF Last(w.b.curr_nfa) # None
              THEN LET c == NFA_connect(w.b, Last(w.b.curr_nfa), w.nfa)
                   IN [c.b EXCEPT !.curr_nfa = SetLast(@, c.nfa)]
              ELSE [w.b EXCEPT !.curr_nfa = SetLast(@, w.nfa)]
    ELSE IF Len(top) = 1
    THEN LET popped == Last(top)
             b1 == [b EXCEPT !.nfa_stack = SetLast(@, Front(top))]
         IN IF Last(b.curr_nfa) # None
            THEN LET c == NFA_connect(b1, Last(b1.curr_nfa), popped)
                 IN [c.b EXCEPT !.curr_nfa = SetLast(@, c.nfa)]
            ELSE [b1 EXCEPT !.curr_nfa = SetLast(@, popped)]
    ELSE b

\* ------------------------------------------------- build_nfa, loop body
\* char in ('?', '*', '+')
quantifier(b, char, idx) ==
    IF Len(b.nfa_stack) = 0 THEN Raise(b, "SyntaxError")
    ELSE LET top == Last(b.nfa_stack) IN
    IF Len(top) = 0 THEN Raise(b, "IndexError")      \* pop from empty list
    ELSE LET popped == Last(top)
             b1 == [b EXCEPT !.nfa_stack = SetLast(@, Front(top))]
             push(bb, wrap) == [bb EXCEPT !.nfa_stack = SetLast(@, Append(Last(@), wrap))]
         IN IF char = "?"
            THEN LET w == NFA_init(b1, <<popped>>) IN
                 IF w.b.err # Ok THEN w.b
                 ELSE push(NFA_bypass(w.b, w.nfa), w.nfa)
            ELSE IF char = "*"
            THEN LET w == NFA_init(b1, <<popped>>) IN
                 IF w.b.err # Ok THEN w.b
                 ELSE push(NFA_loop(NFA_bypass(w.b, w.nfa), w.nfa), w.nfa)
            ELSE LET l == NFA_loop(b1, popped) IN
                 IF l.err # Ok THEN l ELSE push(l, popped)

\* char == "|"
alternation(b) ==
    IF Len(Last(b.nfa_stack)) = 1
    THEN LET f == finalize_nfa_stack(b) IN
         IF f.err # Ok THEN f
         ELSE [f EXCEPT !.nfa_stack = SetLast(@, Append(Last(@), Last(f.curr_nfa))),
                        !.curr_nfa = SetLast(@, None)]
    ELSE b

\* char == "("
group_open(b) ==
    [b EXCEPT !.curr_nfa = Append(@, None), !.nfa_stack = Append(@, <<>>)]

\* char == ")"
group_close(b) ==
    LET f == finalize_nfa_stack(b) IN
    IF f.err # Ok THEN f
    ELSE LET f1 == [f EXCEPT !.nfa_stack = Front(@)] IN
         IF Len(f1.nfa_stack) = 0 THEN Raise(f1, "IndexError")   \* nfa_stack[-1]
         ELSE [f1 EXCEPT !.nfa_stack = SetLast(@, Append(Last(@), Last(f1.curr_nfa))),
                         !.curr_nfa = Front(@)]

\* pattern[i-1]; Python reads index -1 as the last element
prev_char(pat, idx) == IF idx - 1 < 0 THEN pat[Len(pat) + idx] ELSE pat[idx]

\* any other char: a character literal
literal(b, pat, char, idx) ==
    LET b1 == Char_init(b, char)
        char_state == Len(b1.nodes)
        char_nfa == [start_state |-> char_state, end_state |-> char_state]
        top == Last(b1.nfa_stack)
        append == [b1 EXCEPT !.nfa_stack = SetLast(@, Append(top, char_nfa))]
    IN IF prev_char(pat, idx) = "|" THEN append
       ELSE IF Len(top) > 0
       THEN LET c == NFA_connect(b1, Last(top), char_nfa) IN
            IF c.b.err # Ok THEN c.b
            ELSE [c.b EXCEPT !.nfa_stack = SetLast(@, SetLast(top, c.nfa))]
       ELSE append

\* build_nfa, after the loop: finalize, append End, return curr_nfa[0]
build_tail(b) ==
    LET f == finalize_nfa_stack(b) IN
    IF f.err # Ok THEN f
    ELSE LET e == End_init(f)
             end == Len(e.nodes)
             c == NFA_connect(e, e.curr_nfa[1], [start_state |-> end, end_state |-> end])
         IN IF c.b.err # Ok THEN c.b
            ELSE [c.b EXCEPT !.curr_nfa = [@ EXCEPT ![1] = c.nfa]]

\* the loop body of build_nfa for the character at position idx (0-based)
handler(b, pat, idx) ==
    LET char == pat[idx + 1] IN
    IF char \in Quantifiers THEN quantifier(b, char, idx)
    ELSE IF char = "|" THEN alternation(b)
    ELSE IF char = "(" THEN group_open(b)
    ELSE IF char = ")" THEN group_close(b)
    ELSE literal(b, pat, char, idx)

RECURSIVE build_scan(_, _, _)
\* `for i, char in enumerate(pattern)` from position idx on, then the tail;
\* an exception leaves the function with what was built so far
build_scan(b, pat, idx) ==
    IF b.err # Ok THEN b
    ELSE IF idx = Len(pat) THEN build_tail(b)
    ELSE build_scan(handler(b, pat, idx), pat, idx + 1)

\* one whole call build_nfa(pattern) on an empty heap
build_nfa(pat) ==
    build_scan([nodes |-> <<>>, id_count |-> 1, nfa_stack |-> << <<>> >>,
                curr_nfa |-> <<None>>, err |-> Ok], pat, 0)

\* ------------------------------------------------------------ State.match
NoRaise(out) == [raised |-> FALSE, out |-> out]
RecursionRaised == [raised |-> TRUE, out |-> <<>>]

RECURSIVE State_match(_, _, _, _)
RECURSIVE Split_match_loop(_, _, _, _, _, _)

\* `for state in self.next_states`, from element n on, `matches` so far
Split_match_loop(ns, self, char, active, n, matches) ==
    IF n > Len(ns[self].next_states) THEN NoRaise(matches)
    ELSE LET state == ns[self].next_states[n] IN
         IF ns[state].kind = "End"
         THEN Split_match_loop(ns, self, char, active, n + 1, Append(matches, state))
         ELSE LET r == State_match(ns, state, char, active) IN
              IF r.raised THEN r
              ELSE Split_match_loop(ns, self, char, active, n + 1, matches \o r.out)

\* self.match(char), dispatched on the class of self.  `active` is the set of
\* Split objects whose match is on the call stack: match reads only the graph
\* and char, so a call on an active object repeats its caller's call and the
\* recursion never returns; the interpreter ends it at its recursion limit.
State_match(ns, self, char, active) ==
    IF ns[self].kind = "Char"
    THEN NoRaise(IF ns[self].match_any \/ ns[self].match_char = char
                 THEN ns[self].next_states ELSE <<>>)
    ELSE IF ns[self].kind = "End" THEN NoRaise(<<>>)
    ELSE IF self \in active THEN RecursionRaised
    ELSE Split_match_loop(ns, self, char, active \cup {self}, 1, <<>>)

Range(s) == {s[n] : n \in 1..Len(s)}

\* one iteration of `for char in string` past the emptiness test:
\* next_states collected over all of states, then states = set(next_states)
match_step(ns, sts, char) ==
    LET rs == [s \in sts |-> State_match(ns, s, char, {})] IN
    IF \E s \in sts : rs[s].raised THEN RecursionRaised
    ELSE NoRaise(UNION {Range(rs[s].out) : s \in sts})

\* an iteration that collects into the list Char.match returned: the
\* next_states of every active Char that accepts char is extended in place
match_heap_aliased(ns, sts, char) ==
    [n \in DOMAIN ns |->
        IF n \in sts /\ ns[n].kind = "Char" /\ (ns[n].match_any \/ ns[n].match_char = char)
        THEN [ns[n] EXCEPT !.next_states = @ \o @]
        ELSE ns[n]]

\* the heap after one iteration of `for char in string`.  Char.match returns
\* the node's own next_states list and Split.match a fresh `matches` list;
\* match_pattern copies their elements into its own fresh next_states list
\* (extend) and calls no add_next_state: no object is written.
match_heap(ns, sts, char) == ns

\* ------------------------------------------------------------ the program
BState == [nodes |-> nodes, id_count |-> id_count, nfa_stack |-> nfa_stack,
           curr_nfa |-> curr_nfa, err |-> Ok]

Init ==
    /\ pattern \in Patterns
    /\ string \in Strings
    /\ pc = "call"
    /\ i = 0
    /\ nodes = <<>>
    /\ id_count = 1
    /\ nfa_stack = <<>>
    /\ curr_nfa = <<>>
    /\ nfa = None
    /\ states = {}
    /\ pos = 0
    /\ result = "none"
    /\ heap_base = <<>>
    /\ threads = <<>>

\* the effect of one handler of build_nfa: its writes, and either the next
\* pattern position or the exception that leaves match_pattern
Commit(b) ==
    /\ nodes' = b.nodes
    /\ id_count' = b.id_count
    /\ nfa_stack' = b.nfa_stack
    /\ curr_nfa' = b.curr_nfa
    /\ IF b.err # Ok
       THEN pc' = "done" /\ result' = b.err /\ i' = i
       ELSE pc' = "scan" /\ result' = result /\ i' = i + 1
    /\ UNCHANGED <<pattern, string, nfa, states, pos, heap_base, threads>>

\* build_nfa entered without `State.id_count = 1`
build_nfa_enter_no_reset ==
    /\ pc = "call"
    /\ pc' = "scan"
    /\ curr_nfa' = <<None>>
    /\ nfa_stack' = << <<>> >>
    /\ heap_base' = Append(heap_base, Len(nodes))
    /\ UNCHANGED <<pattern, string, i, nodes, id_count, nfa, states, pos, result, threads>>

\* match_pattern calls build_nfa: counter reset, the two stacks created
build_nfa_enter ==
    /\ pc = "call"
    /\ pc' = "scan"
    /\ id_count' = 1
    /\ curr_nfa' = <<None>>
    /\ nfa_stack' = << <<>> >>
    /\ heap_base' = Append(heap_base, Len(nodes))
    /\ UNCHANGED <<pattern, string, i, nodes, nfa, states, pos, result, threads>>

Quantifier ==
    /\ pc = "scan" /\ i < Len(pattern)
    /\ pattern[i + 1] \in Quantifiers
    /\ Commit(quantifier(BState, pattern[i + 1], i))

Alternation ==
    /\ pc = "scan" /\ i < Len(pattern)
    /\ pattern[i + 1] = "|"
    /\ Commit(alternation(BState))

GroupOpen ==
    /\ pc = "scan" /\ i < Len(pattern)
    /\ pattern[i + 1] = "("
    /\ Commit(group_open(BState))

GroupClose ==
    /\ pc = "scan" /\ i < Len(pattern)
    /\ pattern[i + 1] = ")"
    /\ Commit(group_close(BState))

Literal ==
    /\ pc = "scan" /\ i < Len(pattern)
    /\ pattern[i + 1] \notin Quantifiers \cup {"|", "(", ")"}
    /\ Commit(literal(BState, pattern, pattern[i + 1], i))

\* end of the pattern: build_nfa returns, match_pattern seeds the state set
build_nfa_return ==
    /\ pc = "scan" /\ i = Len(pattern)
    /\ LET b == build_tail(BState) IN
       /\ nodes' = b.nodes
       /\ id_count' = b.id_count
       /\ nfa_stack' = b.nfa_stack
       /\ curr_nfa' = b.curr_nfa
       /\ IF b.err # Ok
          THEN pc' = "done" /\ result' = b.err /\ UNCHANGED <<nfa, states>>
          ELSE /\ pc' = "match" /\ result' = result
               /\ nfa' = b.curr_nfa[1]
               /\ states' = {b.curr_nfa[1].start_state}
    /\ UNCHANGED <<pattern, string, i, pos, heap_base, threads>>

\* `if len(states) == 0: return False`
match_short_circuit ==
    /\ pc = "match" /\ pos < Len(string)
    /\ states = {}
    /\ pc' = "done" /\ result' = "False"
    /\ UNCHANGED <<pattern, string, i, nodes, id_count, nfa_stack, curr_nfa, nfa, states, pos,
                   heap_base, threads>>

\* one input symbol consumed
match_char ==
    /\ pc = "match" /\ pos < Len(string)
    /\ states # {}
    /\ LET r == match_step(nodes, states, string[pos + 1]) IN
       IF r.raised
       THEN pc' = "done" /\ result' = "RecursionError" /\ UNCHANGED <<states, pos>>
       ELSE pc' = pc /\ result' = result /\ states' = r.out /\ pos' = pos + 1
    /\ nodes' = match_heap(nodes, states, string[pos + 1])
    /\ UNCHANGED <<pattern, string, i, id_count, nfa_stack, curr_nfa, nfa,
                   heap_base, threads>>

\* `return nfa.end_state in states`
match_return ==
    /\ pc = "match" /\ pos = Len(string)
    /\ pc' = "done"
    /\ result' = IF nfa.end_state \in states THEN "True" ELSE "False"
    /\ UNCHANGED <<pattern, string, i, nodes, id_count, nfa_stack, curr_nfa, nfa, states, pos,
                   heap_base, threads>>

Next ==
    \/ build_nfa_enter
    \/ Quantifier
    \/ Alternation
    \/ GroupOpen
    \/ GroupClose
    \/ Literal
    \/ build_nfa_return
    \/ match_short_circuit
    \/ match_char
    \/ match_return

Spec == Init /\ [][Next]_vars

\* ------------------------------------------- builds one after the other
\* main() calls build_nfa again and again in one process: the class counter
\* and the objects of earlier builds are still there when the next one starts.
MaxSeqPatLen == 1
MaxBuilds == 2

SeqSymbols == {"a", "*", "|", "(", ")"}

\* builds with Splits, and builds that raise after creating nodes
SeqSamples ==
    { <<"a", "*">>, <<"a", "|", "b">>, <<"(", "a", ")">>, <<"a", "b", "?">>,
      <<"a", "(", "*">>, <<"(", ")", "*">> }

SeqPatterns == SeqsUpTo(SeqSymbols, MaxSeqPatLen) \cup SeqSamples

InitSeq ==
    /\ pattern \in SeqPatterns
    /\ string = <<>>
    /\ pc = "call"
    /\ i = 0
    /\ nodes = <<>>
    /\ id_count = 1
    /\ nfa_stack = <<>>
    /\ curr_nfa = <<>>
    /\ nfa = None
    /\ states = {}
    /\ pos = 0
    /\ result = "none"
    /\ heap_base = <<>>
    /\ threads = <<>>

\* the previous build_nfa call has returned or raised; the next one is made
next_build ==
    /\ pc \in {"match", "done"}
    /\ Len(heap_base) < MaxBuilds
    /\ pattern' \in SeqPatterns
    /\ pc' = "call"
    /\ i' = 0
    /\ nfa' = None
    /\ states' = {}
    /\ result' = "none"
    /\ UNCHANGED <<string, nodes, id_count, nfa_stack, curr_nfa, pos, heap_base, threads>>

NextSeq ==
    \/ build_nfa_enter
    \/ Quantifier
    \/ Alternation
    \/ GroupOpen
    \/ GroupClose
    \/ Literal
    \/ build_nfa_return
    \/ next_build

SpecSeq == InitSeq /\ [][NextSeq]_vars

\* ------------------------------------------------- builds in two threads
\* Two threads call build_nfa at the same time.  curr_nfa, nfa_stack and the
\* objects a call creates are local to it; State.id_count is a class
\* attribute, shared.  A call touches it when it enters (line 139) and in
\* every State.__init__ without state_id (lines 17 and 18), and the
\* interpreter may switch threads between any two of these accesses; the
\* statement `State.id_count += 1` is a read followed by a write.
Threads == {1, 2}

\* the state_ids build_nfa(pat) takes from the counter, in creation order
\* (End, created last, has a fixed state_id)
CounterIds(pat) ==
    LET alone == build_nfa(pat) IN
    [m \in 1..(alone.id_count - 1) |-> alone.nodes[m].state_id]

InitConc ==
    /\ threads \in [Threads -> {[pattern |-> p, pc |-> "enter", ids |-> <<>>, loaded |-> 0] :
                                    p \in SeqPatterns}]
    /\ id_count = 1
    /\ pattern = <<>>
    /\ string = <<>>
    /\ pc = "threads"
    /\ i = 0
    /\ nodes = <<>>
    /\ nfa_stack = <<>>
    /\ curr_nfa = <<>>
    /\ nfa = None
    /\ states = {}
    /\ pos = 0
    /\ result = "none"
    /\ heap_base = <<>>

ThreadFrame == <<pattern, string, pc, i, nodes, nfa_stack, curr_nfa, nfa, states, pos, result,
                 heap_base>>

\* State.id_count = 1
thread_reset(t) ==
    /\ threads[t].pc = "enter"
    /\ id_count' = 1
    /\ threads' = [threads EXCEPT ![t].pc = "build"]
    /\ UNCHANGED ThreadFrame

\* the build reaches its next State.__init__: self.state_id = State.id_count
thread_assign(t) ==
    /\ threads[t].pc = "build"
    /\ Len(threads[t].ids) < Len(CounterIds(threads[t].pattern))
    /\ threads' = [threads EXCEPT ![t].ids = Append(@, id_count), ![t].pc = "load"]
    /\ UNCHANGED id_count
    /\ UNCHANGED ThreadFrame

\* State.id_count += 1, the read
thread_load(t) ==
    /\ threads[t].pc = "load"
    /\ threads' = [threads EXCEPT ![t].loaded = id_count, ![t].pc = "store"]
    /\ UNCHANGED id_count
    /\ UNCHANGED ThreadFrame

\* State.id_count += 1, the write
thread_store(t) ==
    /\ threads[t].pc = "store"
    /\ id_count' = threads[t].loaded + 1
    /\ threads' = [threads EXCEPT ![t].pc = "build"]
    /\ UNCHANGED ThreadFrame

\* the build has created all its nodes: build_nfa returns or raises
thread_return(t) ==
    /\ threads[t].pc = "build"
    /\ Len(threads[t].ids) = Len(CounterIds(threads[t].pattern))
    /\ threads' = [threads EXCEPT ![t].pc = "done"]
    /\ UNCHANGED id_count
    /\ UNCHANGED ThreadFrame

NextConc ==
    \/ \E t \in Threads : thread_reset(t)
    \/ \E t \in Threads : thread_assign(t)
    \/ \E t \in Threads : thread_load(t)
    \/ \E t \in Threads : thread_store(t)
    \/ \E t \in Threads : thread_return(t)

SpecConc == InitConc /\ [][NextConc]_vars

\* ---------------------------------------------------------------- results
Done == pc = "done"
Returned(p, s, r) == Done /\ pattern = p /\ string = s /\ result = r

\* ----------------------------------------------------------------- claims
Metacharacters == Quantifiers \cup {"|", "(", ")", "."}
IsLiteralPattern(p) == Len(p) > 0 /\ \A n \in 1..Len(p) : p[n] \notin Metacharacters
Bool(x) == IF x THEN "True" ELSE "False"
AllEqual(s, c) == \A n \in 1..Len(s) : s[n] = c

\* C1: for a pattern that is a non-empty sequence of literals, match_pattern
\* returns True exactly when the input equals the pattern.
C1_LiteralSequence ==
    (Done /\ IsLiteralPattern(pattern)) => result = Bool(string = pattern)

C1_Witness ==
    /\ Returned(<<"a", "b">>, <<"a", "b">>, "True")
    /\ nfa # None

\* C2: "x|y" with distinct literals x and y accepts x, accepts y and rejects
\* every other input.
C2_Alternation ==
    \A x \in Literals, y \in Literals :
        (Done /\ x # y /\ pattern = <<x, "|", y>>)
            => result = Bool(string \in {<<x>>, <<y>>})

\* C3: "c*" accepts the empty input and every run of c, and rejects every
\* input that contains another symbol.
C3_ZeroOrMore ==
    \A c \in Literals :
        (Done /\ pattern = <<c, "*">>) => result = Bool(AllEqual(string, c))

\* C4: "c+" accepts exactly the runs of c of length at least one.
C4_OneOrMore ==
    \A c \in Literals :
        (Done /\ pattern = <<c, "+">>)
            => result = Bool(Len(string) >= 1 /\ AllEqual(string, c))

C4_Witness ==
    /\ Returned(<<"a", "+">>, <<"a", "a", "a">>, "True")
    /\ nodes[nfa.start_state].next_states = <<nfa.start_state, nfa.end_state>>

\* C5: "c?" accepts the empty input and c, and rejects every other input.
C5_ZeroOrOne ==
    \A c \in Literals :
        (Done /\ pattern = <<c, "?">>) => result = Bool(string \in {<<>>, <<c>>})

\* C6: once build_nfa has returned an automaton, match_pattern ends with a
\* boolean: no step of the simulation recurses without bound or raises.
C6_MatchTerminates ==
    (Done /\ nfa # None) => result \in {"True", "False"}

\* C7: the empty pattern builds, accepts the empty input and rejects every
\* other input.
C7_EmptyPattern ==
    (Done /\ pattern = <<>>) => result = Bool(string = <<>>)

\* C8: "x(y)" and "(x)(y)" accept exactly the input xy.
C8_GroupConcatenation ==
    \A x \in Literals, y \in Literals :
        (Done /\ pattern \in {<<x, "(", y, ")">>, <<"(", x, ")", "(", y, ")">>})
            => result = Bool(string = <<x, y>>)

\* C9: match_pattern("(ca*t|lion)+.*(dog)?", "catsdog") returns True.
C9_Composite ==
    (Done /\ pattern = CompositePattern /\ string = CompositeInput)
        => result = "True"

\* position j (0-based) holds a quantifier with no operand before it in its
\* frame: first character of the pattern, or right after "(" or "|"
DanglingAt(p, j) ==
    /\ j < Len(p)
    /\ p[j + 1] \in Quantifiers
    /\ (j = 0 \/ p[j] \in {"(", "|"})

\* C10: a quantifier with no operand in the current frame makes build_nfa
\* raise SyntaxError: the scan never gets past it, and the exception raised
\* at that position is the SyntaxError of the quantifier guard.
C10_DanglingQuantifier ==
    \A j \in 0..(Len(pattern) - 1) :
        DanglingAt(pattern, j)
            => /\ i <= j
               /\ (Done /\ i = j) => result = "SyntaxError"

\* number of "(" minus number of ")" among the first n characters of p
Depth(p, n) ==
    Cardinality({k \in 1..n : p[k] = "("}) - Cardinality({k \in 1..n : p[k] = ")"})

\* a ")" with no open group, or a "(" never closed
Unbalanced(p) ==
    \/ \E n \in 1..Len(p) : Depth(p, n) < 0
    \/ Depth(p, Len(p)) > 0

\* C11: on a pattern with unbalanced parentheses build_nfa returns no
\* automaton and ends in its reported syntax error, not in an IndexError or
\* AttributeError of an internal access.
C11_UnbalancedGroup ==
    Unbalanced(pattern)
        => /\ nfa = None
           /\ Done => result = "SyntaxError"

\* the pattern ends in "|", or has a "|" right before a ")"
TrailingAlternation(p) ==
    \/ Len(p) > 0 /\ p[Len(p)] = "|"
    \/ \E n \in 1..(Len(p) - 1) : p[n] = "|" /\ p[n + 1] = ")"

\* C12: on a pattern with an alternative that has no operand build_nfa
\* returns no automaton and the call ends in an error.
C12_TrailingAlternation ==
    TrailingAlternation(pattern)
        => /\ nfa = None
           /\ Done => result \notin {"True", "False"}

\* the objects the current build has created, in creation order
BuiltNodes == SubSeq(nodes, Last(heap_base) + 1, Len(nodes))

\* a reference of the current build, as an index among its own objects
Rebase(n) == n - Last(heap_base)

\* node m of the current build is node m of the build made alone: same class,
\* same character, same state_id, same successors in the same order
SameNode(mine, alone) ==
    /\ mine.kind = alone.kind
    /\ mine.match_any = alone.match_any
    /\ mine.match_char = alone.match_char
    /\ mine.state_id = alone.state_id
    /\ Len(mine.next_states) = Len(alone.next_states)
    /\ \A k \in 1..Len(mine.next_states) :
           Rebase(mine.next_states[k]) = alone.next_states[k]

BuildFinished == pc \in {"match", "done"}

\* C13: whatever builds ran before, a finished build_nfa(p) has created the
\* nodes that build_nfa(p) creates alone (classes, state_ids, edges), and it
\* ends the same way: the same automaton returned, or the same exception.
C13_BuildIndependentOfHistory ==
    BuildFinished =>
        LET alone == build_nfa(pattern) IN
        /\ Len(BuiltNodes) = Len(alone.nodes)
        /\ \A m \in 1..Len(BuiltNodes) : SameNode(BuiltNodes[m], alone.nodes[m])
        /\ IF alone.err = Ok
           THEN /\ nfa # None
                /\ Rebase(nfa.start_state) = alone.curr_nfa[1].start_state
                /\ Rebase(nfa.end_state) = alone.curr_nfa[1].end_state
           ELSE nfa = None /\ result = alone.err

\* a second build, made after a build that left objects and a counter above
\* 1 behind, has returned the automaton of "a|b" with state_ids 1..4
C13_Witness ==
    /\ pc = "match"
    /\ Len(heap_base) = 2
    /\ heap_base[2] > 0
    /\ pattern = <<"a", "|", "b">>
    /\ [m \in 1..4 |-> BuiltNodes[m].state_id] = <<1, 2, 3, 4>>

\* C14: when two builds run concurrently, each finished build has given its
\* nodes the state_ids it gives them when it runs alone, 1..n without
\* repetition.
C14_ConcurrentIdentities ==
    \A t \in DOMAIN threads :
        threads[t].pc = "done" => threads[t].ids = CounterIds(threads[t].pattern)

\* ------------------------------------------- the automaton as a graph
Successors(ns, n) == Range(ns[n].next_states)

\* an edge out of a Split consumes nothing
EpsilonSuccessors(ns, n) == IF ns[n].kind = "Split" THEN Successors(ns, n) ELSE {}

RECURSIVE EpsilonClosure(_, _)
EpsilonClosure(ns, S) ==
    LET more == S \cup UNION {EpsilonSuccessors(ns, n) : n \in S}
    IN IF more = S THEN S ELSE EpsilonClosure(ns, more)

RECURSIVE ReachableFrom(_, _)
\* the nodes reached from S by zero or more edges of any kind
ReachableFrom(ns, S) ==
    LET more == S \cup UNION {Successors(ns, n) : n \in S}
    IN IF more = S THEN S ELSE ReachableFrom(ns, more)

\* the successors of the Char nodes of S that accept symbol c
Consume(ns, S, c) ==
    UNION {Successors(ns, n) :
             n \in {m \in S : ns[m].kind = "Char" /\ (ns[m].match_any \/ ns[m].match_char = c)}}

RECURSIVE Positions(_, _, _, _)
\* where the automaton can be after consuming exactly the first k symbols of
\* str and any number of epsilon edges
Positions(ns, start, str, k) ==
    IF k = 0 THEN EpsilonClosure(ns, {start})
    ELSE EpsilonClosure(ns, Consume(ns, Positions(ns, start, str, k - 1), str[k]))

\* C15: after match_pattern has processed the first pos symbols, every node
\* of the active set is a position of the automaton after exactly these
\* symbols; End is active only if a path to it consumes exactly them.
C15_ActiveSetSound ==
    (nfa # None /\ pc \in {"match", "done"})
        => states \subseteq Positions(nodes, nfa.start_state, string, pos)

\* C16: a quantifier binds the last operand only: "xy+" accepts xyy and
\* rejects xyxy, "xy?" accepts x (x, y distinct literals).
C16_QuantifierBindsLastOperand ==
    \A x \in Literals, y \in Literals :
        (Done /\ x # y) =>
            /\ (pattern = <<x, y, "+">> /\ string = <<x, y, y>>) => result = "True"
            /\ (pattern = <<x, y, "+">> /\ string = <<x, y, x, y>>) => result = "False"
            /\ (pattern = <<x, y, "?">> /\ string = <<x>>) => result = "True"

\* the fragments (NFA objects) held in the frames of nfa_stack and in curr_nfa
HeldFragments ==
    (UNION {Range(nfa_stack[f]) : f \in 1..Len(nfa_stack)} \cup Range(curr_nfa)) \ {None}

\* C17: every fragment held by the builder has its end_state reachable from
\* its start_state; a returned automaton has End reachable from its
\* start_state, and End has no outgoing edge.
C17_FragmentInvariant ==
    /\ \A f \in HeldFragments : f.end_state \in ReachableFrom(nodes, {f.start_state})
    /\ nfa # None =>
          /\ nodes[nfa.end_state].kind = "End"
          /\ nfa.end_state \in ReachableFrom(nodes, {nfa.start_state})
          /\ \A n \in 1..Len(nodes) : nodes[n].kind = "End" => nodes[n].next_states = <<>>

\* "a|b" has been built: its two alternatives are held in the frame, wrapped
\* between two Splits, and the automaton has been returned
C17_Witness ==
    /\ pc = "match"
    /\ pattern = <<"a", "|", "b">>
    /\ Len(nfa_stack[1]) = 2
    /\ nodes[nfa.start_state].kind = "Split"
    /\ nfa.end_state \in ReachableFrom(nodes, {nfa.start_state}) \ {nfa.start_state}

\* C19: a returned automaton starts at the one Start node of the graph
\* (state_id 0) and ends at its one End node (state_id -1).
C19_StartAndEnd ==
    nfa # None =>
        /\ nodes[nfa.start_state].kind = "Start"
        /\ nodes[nfa.start_state].state_id = 0
        /\ nodes[nfa.end_state].kind = "End"
        /\ nodes[nfa.end_state].state_id = -1
        /\ Cardinality({n \in 1..Len(nodes) : nodes[n].kind = "Start"}) = 1
        /\ Cardinality({n \in 1..Len(nodes) : nodes[n].kind = "End"}) = 1

\* C18: between the return of build_nfa and the return of match_pattern no
\* step changes the nodes, their successor lists or the automaton's
\* start_state and end_state.
C18_SimulationReadsOnly ==
    [][pc = "match" => (nodes' = nodes /\ nfa' = nfa)]_vars

\* a simulation over two or more symbols has accepted, and the heap is the
\* one build_nfa produced
C18_Witness ==
    /\ Done
    /\ result = "True"
    /\ pos >= 2
    /\ nodes = build_nfa(pattern).nodes
    /\ nfa = build_nfa(pattern).curr_nfa[1]

====
